---- MODULE Spec2Model ----
(***************************************************************************)
(* Model of the subtitle generator: the GUI state machine of               *)
(* src/gui/app.rs (VideoSubtitleApp, the shared ProgressInfo record behind *)
(* a Mutex, the worker thread spawned by start_processing) and the         *)
(* pipeline of src/whisper/transcribe.rs (transcribe_audio) that the       *)
(* worker runs.  The parts of the pipeline are also studied on their own:  *)
(* the model store (src/model.rs), the audio check (src/media/audio.rs),   *)
(* the subtitle and timestamp formatter (src/media/subtitle.rs), the       *)
(* command line (src/cli/args.rs, src/main_cli.rs) and pipeline runs that  *)
(* share the temp directory.                                               *)
(***************************************************************************)
EXTENDS Integers, Sequences, FiniteSets, TLC

\* ------------------------------------------------------------------ bounds
\* number of worker threads that may exist at the same time in the model
MaxWorkers == 2
\* number of distinct video files the file dialog can return
NumInputs == 2
\* length of the window of past status tags kept in hist
HistLen == 6

Workers == 1..MaxWorkers
Inputs == 1..NumInputs
\* Option<String>::None
None == 0
\* the Mutex is held by nobody
Free == 0

\* ------------------------------------------------------------ AppStatus
\* enum AppStatus; Error carries its message, the other variants carry none
St(t) == [tag |-> t, err |-> "-"]
Initial == St("Initial")
FileSelected == St("FileSelected")
Processing == St("Processing")
Completed == St("Completed")
SaveSuccess == St("SaveSuccess")
Error(m) == [tag |-> "Error", err |-> m]

\* Stages with the model check made before the input file is looked for
Stages_ModelFirst == <<"model", "exists", "extract", "parse", "convert",
                       "ctx", "state", "full", "srt", "cleanup">>

\* the failure points of transcribe_audio, in program order; the message of
\* the worker's Error status is the failure's message, modelled by its stage
Stages == <<"exists", "model", "extract", "parse", "convert", "ctx",
            "state", "full", "srt", "cleanup">>
StageSet == {Stages[i] : i \in 1..Len(Stages)}

\* messages of ProgressInfo.message (the program's texts are Chinese)
MsgSelect == "select_video"          \* "请选择视频文件"
MsgSelected == "file_selected"       \* "文件已选择，请点击生成字幕"
MsgGenerating == "generating"        \* "正在生成字幕..."
MsgProcessing == "processing_video"  \* "正在处理视频..."
MsgProcessed == "processing_done"    \* "处理完成"
MsgCompleted == "subtitle_done"      \* "字幕生成完成！"
MsgSaved == "saved"                  \* "字幕已保存成功！"

\* impl Default for ProgressInfo
ProgressInfo_default ==
    [status |-> Initial, message |-> MsgSelect, progress |-> 0,
     subtitle_content |-> None]

VARIABLES
    input_path,     \* VideoSubtitleApp.input_path: None or an input
    output_path,    \* VideoSubtitleApp.output_path: None or 1 (a chosen path)
    progress_info,  \* the ProgressInfo behind Arc<Mutex<..>>
    mutex,          \* holder of the Mutex: Free or the id of a worker
    fpc,            \* position of the foreground thread inside update()
    fret,           \* where the foreground continues after a nested call
    fstatus,        \* local `status` of render_main_panel (line 273)
    fcontent,       \* local `content` of save_subtitle_file
    fsave,          \* outcome of the save dialog and of fs::write
    wpc,            \* position of each worker thread
    wcfg,           \* app_config.input captured by each worker closure
    wrun,           \* what each worker's run of transcribe_audio has done
    temp_audio,     \* does <temp dir>/temp_audio.wav exist
    srt_file,       \* state of "<input>.temp.srt" for each input
    out_file,       \* has the user's output file been written
    hist,           \* the last HistLen distinct status tags of the record
    ms,             \* the model store: the model file and a call of ensure
    wav,            \* the audio extractor: a decoded file and its check
    srt,            \* the subtitle formatter: the segments and the document
    ts,             \* the timestamp formatter: a time and its printed form
    cli,            \* the command line program: its arguments and position
    tmp             \* pipeline runs of several processes and the temp dir

vars == <<input_path, output_path, progress_info, mutex, fpc, fret, fstatus,
          fcontent, fsave, wpc, wcfg, wrun, temp_audio, srt_file, out_file,
          hist, ms, wav, srt, ts, cli, tmp>>

\* the GUI and its pipeline; the components studied on their own
guivars == <<input_path, output_path, progress_info, mutex, fpc, fret,
             fstatus, fcontent, fsave, wpc, wcfg, wrun, temp_audio,
             srt_file, out_file, hist>>
units == <<ms, wav, srt, ts, cli, tmp>>

fgvars == <<input_path, output_path, fpc, fret, fstatus, fcontent, fsave,
            out_file>>
wvars == <<wpc, wcfg, wrun>>
files == <<temp_audio, srt_file>>

\* a run of transcribe_audio that has done nothing yet
Run_default ==
    [extract_reached |-> FALSE, remove_attempted |-> FALSE,
     result |-> "none", failed |-> "none", attempted |-> <<>>,
     events |-> 0]

\* the window of status tags after the record's status became s
Observe(h, s) ==
    IF h[Len(h)] = s.tag THEN h
    ELSE IF Len(h) < HistLen THEN Append(h, s.tag)
    ELSE Append(Tail(h), s.tag)

\* an assignment to fields of the record, inside one critical section
SetInfo(new) ==
    /\ progress_info' = new
    /\ hist' = Observe(hist, new.status)

\* the model file does not exist
Absent == 0 - 1
\* content_length() is None
NoLength == 0 - 1
\* a local of download_model that is not yet assigned
Unset == 0 - 2

\* the model store before any call of ensure_model_exists; partial says that
\* the file was created by a download that did not reach its end
Ms_idle ==
    [pc |-> "idle", file |-> Absent, file0 |-> Absent, total |-> Unset,
     downloaded |-> 0, requests |-> 0, partial |-> FALSE,
     result |-> "none"]

\* the audio extractor before any call
Wav_idle ==
    [pc |-> "idle", channels |-> 1, format |-> "Int", rate |-> 16000,
     bits |-> 16, readable |-> TRUE, tool_ok |-> TRUE, parsed |-> "none",
     run |-> "none"]

\* the subtitle formatter before any call
Srt_idle ==
    [pc |-> "idle", segments |-> <<>>, i |-> 0, doc |-> <<>>,
     exists |-> FALSE, doc0 |-> <<>>, exists0 |-> FALSE, result |-> "none"]

\* the timestamp formatter before any call
Ts_idle ==
    [pc |-> "idle", kind |-> "seconds", input |-> 0,
     seconds |-> [bits |-> <<>>, e |-> 0], out |-> <<>>]

\* the command line program before it starts
Cli_idle ==
    [pc |-> "idle", input |-> FALSE, output |-> FALSE, language |-> FALSE,
     config_dir |-> FALSE, config_dir0 |-> FALSE,
     config_file |-> "absent", config_file0 |-> "absent",
     loaded |-> FALSE, app_language |-> "none", started |-> FALSE,
     result |-> "none"]

\* no pipeline run of another process, and an empty temp directory
Tmp_idle ==
    [files |-> <<>>, pc |-> <<>>, cfg |-> <<>>, path |-> <<>>,
     decoded |-> <<>>, deleted |-> <<>>, result |-> <<>>]

GuiInit ==
    /\ input_path = None
    /\ output_path = None
    /\ progress_info = ProgressInfo_default
    /\ mutex = Free
    /\ fpc = "idle"
    /\ fret = "idle"
    /\ fstatus = Initial
    /\ fcontent = None
    /\ fsave = "none"
    /\ wpc = [w \in Workers |-> "none"]
    /\ wcfg = [w \in Workers |-> None]
    /\ wrun = [w \in Workers |-> Run_default]
    /\ temp_audio = FALSE
    /\ srt_file = [i \in Inputs |-> "absent"]
    /\ out_file = FALSE
    /\ hist = <<"Initial">>

Init ==
    /\ GuiInit
    /\ tmp = Tmp_idle
    /\ ms = Ms_idle
    /\ wav = Wav_idle
    /\ srt = Srt_idle
    /\ ts = Ts_idle
    /\ cli = Cli_idle

\* ------------------------------------------------------------ foreground
\* Buttons with a "start" button drawn in the Processing view
Buttons_StartWhileProcessing(s) ==
    CASE s.tag = "Initial" -> {"select"}
      [] s.tag = "FileSelected" -> {"select", "start"}
      [] s.tag = "Processing" -> {"start"}
      [] s.tag = "Completed" -> {"save"}
      [] s.tag = "SaveSuccess" -> {"next"}
      [] s.tag = "Error" -> {"restart"}

\* Buttons with a "restart" button drawn in the Processing view
Buttons_RestartWhileProcessing(s) ==
    CASE s.tag = "Initial" -> {"select"}
      [] s.tag = "FileSelected" -> {"select", "start"}
      [] s.tag = "Processing" -> {"restart"}
      [] s.tag = "Completed" -> {"save"}
      [] s.tag = "SaveSuccess" -> {"next"}
      [] s.tag = "Error" -> {"restart"}

\* the buttons render_main_panel draws for a status (match at line 301)
Buttons(s) ==
    CASE s.tag = "Initial" -> {"select"}
      [] s.tag = "FileSelected" -> {"select", "start"}
      [] s.tag = "Processing" -> {}
      [] s.tag = "Completed" -> {"save"}
      [] s.tag = "SaveSuccess" -> {"next"}
      [] s.tag = "Error" -> {"restart"}

\* update(), first part: a new frame begins and render_bottom_panel reads
\* the status under the lock
render_bottom_panel ==
    /\ fpc = "idle"
    /\ mutex = Free
    /\ fpc' = "snapshot"
    /\ UNCHANGED <<input_path, output_path, progress_info, mutex, fret,
                   fstatus, fcontent, fsave, out_file, hist>>
    /\ UNCHANGED <<wvars, files>>
    /\ UNCHANGED units

\* render_main_panel, line 273: the status is cloned under the lock
render_main_panel ==
    /\ fpc = "snapshot"
    /\ mutex = Free
    /\ fstatus' = progress_info.status
    /\ fpc' = "main"
    /\ UNCHANGED <<input_path, output_path, progress_info, mutex, fret,
                   fcontent, fsave, out_file, hist>>
    /\ UNCHANGED <<wvars, files>>
    /\ UNCHANGED units

\* the frame in which the user clicks nothing
no_click ==
    /\ fpc = "main"
    /\ fstatus.tag # "Processing"
    /\ fpc' = "check"
    /\ UNCHANGED <<input_path, output_path, progress_info, mutex, fret,
                   fstatus, fcontent, fsave, out_file, hist>>
    /\ UNCHANGED <<wvars, files>>
    /\ UNCHANGED units

\* show_processing that also rewrites the message it displays
show_processing_WritesMessage ==
    /\ fpc = "main"
    /\ fstatus.tag = "Processing"
    /\ mutex = Free
    /\ fpc' = "check"
    /\ SetInfo([progress_info EXCEPT !.message = MsgGenerating,
                                     !.progress = 0])
    /\ UNCHANGED <<input_path, output_path, mutex, fret,
                   fstatus, fcontent, fsave, out_file>>
    /\ UNCHANGED <<wvars, files>>
    /\ UNCHANGED units

\* the Processing arm (lines 334-338): the message is read under the lock
show_processing ==
    /\ fpc = "main"
    /\ fstatus.tag = "Processing"
    /\ mutex = Free
    /\ fpc' = "check"
    /\ UNCHANGED <<input_path, output_path, progress_info, mutex, fret,
                   fstatus, fcontent, fsave, out_file, hist>>
    /\ UNCHANGED <<wvars, files>>
    /\ UNCHANGED units

\* select_input_file that stores the path but not the FileSelected status
select_input_file_NoStatus(p) ==
    /\ fpc = "main"
    /\ "select" \in Buttons(fstatus)
    /\ mutex = Free
    /\ IF p # None
       THEN /\ input_path' = p
            /\ SetInfo([progress_info EXCEPT !.message = MsgSelected])
            /\ fpc' = "check"
            /\ UNCHANGED fret
       ELSE /\ IF progress_info.status = FileSelected
               THEN fpc' = "reset" /\ fret' = "check"
               ELSE fpc' = "check" /\ UNCHANGED fret
            /\ UNCHANGED <<input_path, progress_info, hist>>
    /\ UNCHANGED <<output_path, mutex, fstatus, fcontent, fsave, out_file>>
    /\ UNCHANGED <<wvars, files>>
    /\ UNCHANGED units

\* select_input_file that ignores a cancelled dialog
select_input_file_CancelIgnored(p) ==
    /\ fpc = "main"
    /\ "select" \in Buttons(fstatus)
    /\ mutex = Free
    /\ IF p # None
       THEN /\ input_path' = p
            /\ SetInfo([progress_info EXCEPT !.status = FileSelected,
                                             !.message = MsgSelected])
       ELSE UNCHANGED <<input_path, progress_info, hist>>
    /\ fpc' = "check"
    /\ UNCHANGED fret
    /\ UNCHANGED <<output_path, mutex, fstatus, fcontent, fsave, out_file>>
    /\ UNCHANGED <<wvars, files>>
    /\ UNCHANGED units

\* the foreground thread as a holder of the Mutex
Ui == 0 - 1

\* select_input_file whose guard of line 103 lives through the block, as the
\* scrutinee of an `if let` would
select_input_file_GuardKept(p) ==
    /\ fpc = "main"
    /\ "select" \in Buttons(fstatus)
    /\ mutex = Free
    /\ IF p # None
       THEN /\ input_path' = p
            /\ SetInfo([progress_info EXCEPT !.status = FileSelected,
                                             !.message = MsgSelected])
            /\ fpc' = "check"
            /\ UNCHANGED <<fret, mutex>>
       ELSE /\ IF progress_info.status = FileSelected
               THEN fpc' = "reset" /\ fret' = "check" /\ mutex' = Ui
               ELSE fpc' = "check" /\ UNCHANGED <<fret, mutex>>
            /\ UNCHANGED <<input_path, progress_info, hist>>
    /\ UNCHANGED <<output_path, fstatus, fcontent, fsave, out_file>>
    /\ UNCHANGED <<wvars, files>>
    /\ UNCHANGED units

\* select_input_file: the dialog returns a path p or None (cancelled)
select_input_file(p) ==
    /\ fpc = "main"
    /\ "select" \in Buttons(fstatus)
    /\ mutex = Free
    /\ IF p # None
       THEN /\ input_path' = p
            /\ SetInfo([progress_info EXCEPT !.status = FileSelected,
                                             !.message = MsgSelected])
            /\ fpc' = "check"
            /\ UNCHANGED fret
       ELSE /\ IF progress_info.status = FileSelected
               THEN fpc' = "reset" /\ fret' = "check"
               ELSE fpc' = "check" /\ UNCHANGED fret
            /\ UNCHANGED <<input_path, progress_info, hist>>
    /\ UNCHANGED <<output_path, mutex, fstatus, fcontent, fsave, out_file>>
    /\ UNCHANGED <<wvars, files>>
    /\ UNCHANGED units

\* reset_to_initial that leaves the subtitle content in the record
reset_to_initial_KeepContent ==
    /\ fpc = "reset"
    /\ mutex = Free
    /\ input_path' = None
    /\ output_path' = None
    /\ SetInfo([progress_info EXCEPT !.status = Initial,
                                     !.message = MsgSelect,
                                     !.progress = 0])
    /\ fpc' = fret
    /\ UNCHANGED <<mutex, fret, fstatus, fcontent, fsave, out_file>>
    /\ UNCHANGED <<wvars, files>>
    /\ UNCHANGED units

\* reset_to_initial
reset_to_initial ==
    /\ fpc = "reset"
    /\ mutex = Free
    /\ input_path' = None
    /\ output_path' = None
    /\ SetInfo([status |-> Initial, message |-> MsgSelect, progress |-> 0,
                subtitle_content |-> None])
    /\ fpc' = fret
    /\ UNCHANGED <<mutex, fret, fstatus, fcontent, fsave, out_file>>
    /\ UNCHANGED <<wvars, files>>
    /\ UNCHANGED units

\* the "next" and "restart" buttons call reset_to_initial
click_reset ==
    /\ fpc = "main"
    /\ Buttons(fstatus) \cap {"next", "restart"} # {}
    /\ fpc' = "reset"
    /\ fret' = "check"
    /\ UNCHANGED <<input_path, output_path, progress_info, mutex, fstatus,
                   fcontent, fsave, out_file, hist>>
    /\ UNCHANGED <<wvars, files>>
    /\ UNCHANGED units

\* the "save" button calls save_subtitle_file
click_save ==
    /\ fpc = "main"
    /\ "save" \in Buttons(fstatus)
    /\ fpc' = "save"
    /\ fret' = "check"
    /\ UNCHANGED <<input_path, output_path, progress_info, mutex, fstatus,
                   fcontent, fsave, out_file, hist>>
    /\ UNCHANGED <<wvars, files>>
    /\ UNCHANGED units

\* update(), lines 399-402: a Completed status opens the save dialog
update_check ==
    /\ fpc = "check"
    /\ mutex = Free
    /\ IF progress_info.status = Completed
       THEN fpc' = "save" /\ fret' = "idle"
       ELSE fpc' = "idle" /\ UNCHANGED fret
    /\ UNCHANGED <<input_path, output_path, progress_info, mutex, fstatus,
                   fcontent, fsave, out_file, hist>>
    /\ UNCHANGED <<wvars, files>>
    /\ UNCHANGED units

\* save_subtitle_file, lines 111-118: the content is cloned under the lock
save_subtitle_file ==
    /\ fpc = "save"
    /\ mutex = Free
    /\ IF progress_info.subtitle_content # None
       THEN /\ fcontent' = progress_info.subtitle_content
            /\ fpc' = "save_dialog"
       ELSE /\ fpc' = fret
            /\ UNCHANGED fcontent
    /\ UNCHANGED <<input_path, output_path, progress_info, mutex, fret,
                   fstatus, fsave, out_file, hist>>
    /\ UNCHANGED <<wvars, files>>
    /\ UNCHANGED units

\* save_subtitle_file, lines 131-140 and 148-151: the dialog and fs::write,
\* outside the lock; d is "cancel", "ok" (written) or "err" (write failed)
save_dialog(d) ==
    /\ fpc = "save_dialog"
    /\ IF d = "cancel"
       THEN /\ fpc' = "reset"
            /\ fcontent' = None
            /\ UNCHANGED <<output_path, fsave, out_file>>
       ELSE /\ output_path' = 1
            /\ out_file' = (out_file \/ d = "ok")
            /\ fsave' = d
            /\ fpc' = "save_status"
            /\ UNCHANGED fcontent
    /\ UNCHANGED <<input_path, progress_info, mutex, fret, fstatus, hist>>
    /\ UNCHANGED <<wvars, files>>
    /\ UNCHANGED units

\* save_status with the two outcomes of fs::write exchanged
save_status_Inverted ==
    /\ fpc = "save_status"
    /\ mutex = Free
    /\ IF fsave = "ok"
       THEN SetInfo([progress_info EXCEPT !.status = Error("save")])
       ELSE SetInfo([progress_info EXCEPT !.status = SaveSuccess,
                                          !.message = MsgSaved])
    /\ fpc' = fret
    /\ fsave' = "none"
    /\ fcontent' = None
    /\ UNCHANGED <<input_path, output_path, mutex, fret, fstatus, out_file>>
    /\ UNCHANGED <<wvars, files>>
    /\ UNCHANGED units

\* save_subtitle_file, lines 140-147: the outcome is stored under the lock
save_status ==
    /\ fpc = "save_status"
    /\ mutex = Free
    /\ IF fsave = "err"
       THEN SetInfo([progress_info EXCEPT !.status = Error("save")])
       ELSE SetInfo([progress_info EXCEPT !.status = SaveSuccess,
                                          !.message = MsgSaved])
    /\ fpc' = fret
    /\ fsave' = "none"
    /\ fcontent' = None
    /\ UNCHANGED <<input_path, output_path, mutex, fret, fstatus, out_file>>
    /\ UNCHANGED <<wvars, files>>
    /\ UNCHANGED units

\* start_processing: the status is set to Processing under the lock and the
\* worker thread w is spawned
start_processing(w) ==
    /\ fpc = "main"
    /\ "start" \in Buttons(fstatus)
    /\ mutex = Free
    /\ IF input_path = None
       THEN /\ SetInfo([progress_info EXCEPT
                           !.status = Error("no_input")])
            /\ UNCHANGED wvars
       ELSE /\ wpc[w] = "none"
            /\ \A v \in Workers : v < w => wpc[v] # "none"
            /\ SetInfo([progress_info EXCEPT !.status = Processing,
                                             !.message = MsgGenerating,
                                             !.progress = 0])
            /\ wpc' = [wpc EXCEPT ![w] = "cb1"]
            /\ wcfg' = [wcfg EXCEPT ![w] = input_path]
            /\ wrun' = [wrun EXCEPT ![w] = Run_default]
    /\ fpc' = "check"
    /\ UNCHANGED <<input_path, output_path, mutex, fret, fstatus, fcontent,
                   fsave, out_file>>
    /\ UNCHANGED files
    /\ UNCHANGED units

\* ---------------------------------------------------------------- worker
\* the stage after stage s in transcribe_audio
NextStage(s) ==
    LET i == CHOOSE k \in 1..Len(Stages) : Stages[k] = s
    IN Stages[i + 1]

\* `?` on an Err: transcribe_audio returns the failure of stage s at once
Fail(w, s) ==
    /\ wrun' = [wrun EXCEPT ![w].result = "Err", ![w].failed = s,
                            ![w].attempted = Append(@, s)]
    /\ wpc' = [wpc EXCEPT ![w] = "err"]

\* the progress callback of the worker closure (lines 203-207)
progress_callback(w, at, msg, progress, to) ==
    /\ wpc[w] = at
    /\ mutex = Free
    /\ SetInfo([progress_info EXCEPT !.message = msg,
                                     !.progress = progress])
    /\ wpc' = [wpc EXCEPT ![w] = to]
    /\ wrun' = [wrun EXCEPT ![w].events = @ + 1]
    /\ UNCHANGED <<fgvars, mutex, wcfg, files>>
    /\ UNCHANGED units

\* process_with_progress, line 437
process_with_progress_begin(w) ==
    progress_callback(w, "cb1", MsgProcessing, 50, Stages[1])

\* process_with_progress, line 439
process_with_progress_end(w) ==
    progress_callback(w, "cb2", MsgProcessed, 100, "read")

\* transcribe_audio, lines 12-20: the input check and check_model_sync
transcribe_check(w, ok) ==
    /\ wpc[w] \in {"exists", "model"}
    /\ IF ok
       THEN /\ wpc' = [wpc EXCEPT ![w] = NextStage(wpc[w])]
            /\ wrun' = [wrun EXCEPT ![w].attempted = Append(@, wpc[w])]
       ELSE Fail(w, wpc[w])
    /\ UNCHANGED <<fgvars, progress_info, hist, mutex, wcfg, files>>
    /\ UNCHANGED units

\* extract_audio_from_video (line 29): ffmpeg writes temp_audio.wav; a
\* failed ffmpeg may or may not leave a file behind
extract_audio_from_video(w, ok, created) ==
    /\ wpc[w] = "extract"
    /\ IF ok
       THEN /\ temp_audio' = TRUE
            /\ wrun' = [wrun EXCEPT ![w].extract_reached = TRUE,
                                    ![w].attempted = Append(@, "extract")]
            /\ wpc' = [wpc EXCEPT ![w] = "parse"]
       ELSE /\ temp_audio' = (temp_audio \/ created)
            /\ wrun' = [wrun EXCEPT ![w].extract_reached = TRUE,
                                    ![w].result = "Err",
                                    ![w].failed = "extract",
                                    ![w].attempted = Append(@, "extract")]
            /\ wpc' = [wpc EXCEPT ![w] = "err"]
    /\ UNCHANGED <<fgvars, progress_info, hist, mutex, wcfg, srt_file>>
    /\ UNCHANGED units

\* transcribe_step that tries a failed call again
transcribe_step_Retry(w, ok) ==
    /\ wpc[w] \in {"parse", "convert", "ctx", "state", "full"}
    /\ wrun' = [wrun EXCEPT ![w].attempted = Append(@, wpc[w])]
    /\ wpc' = IF ok THEN [wpc EXCEPT ![w] = NextStage(wpc[w])] ELSE wpc
    /\ UNCHANGED <<fgvars, progress_info, hist, mutex, wcfg, files>>
    /\ UNCHANGED units

\* transcribe_audio, lines 32-56: parse_wav_file, the sample conversion,
\* the model load, create_state and state.full, each ending in `?`
transcribe_step(w, ok) ==
    /\ wpc[w] \in {"parse", "convert", "ctx", "state", "full"}
    /\ IF ok
       THEN /\ wpc' = [wpc EXCEPT ![w] = NextStage(wpc[w])]
            /\ wrun' = [wrun EXCEPT ![w].attempted = Append(@, wpc[w])]
       ELSE Fail(w, wpc[w])
    /\ UNCHANGED <<fgvars, progress_info, hist, mutex, wcfg, files>>
    /\ UNCHANGED units

\* the content read from "<input>.temp.srt": the document of input i, or
\* a part of it
SrtContent(i) == IF srt_file[i] = "full" THEN i ELSE 0 - i

\* generate_srt_file (line 62): File::create, then one block per segment;
\* o is "ok", "create_err" (no file made) or "write_err" (a write failed)
generate_srt_file(w, o) ==
    /\ wpc[w] = "srt"
    /\ IF o = "ok"
       THEN /\ srt_file' = [srt_file EXCEPT ![wcfg[w]] = "full"]
            /\ wpc' = [wpc EXCEPT ![w] = "cleanup"]
            /\ wrun' = [wrun EXCEPT ![w].attempted = Append(@, "srt")]
       ELSE /\ srt_file' = IF o = "write_err"
                           THEN [srt_file EXCEPT ![wcfg[w]] = "partial"]
                           ELSE srt_file
            /\ Fail(w, "srt")
    /\ UNCHANGED <<fgvars, progress_info, hist, mutex, wcfg, temp_audio>>
    /\ UNCHANGED units

\* transcribe_audio, lines 64-71: the temporary audio file is removed if it
\* exists, and a failed removal is returned with `?`
transcribe_cleanup(w, ok) ==
    /\ wpc[w] = "cleanup"
    /\ IF temp_audio
       THEN IF ok
            THEN /\ temp_audio' = FALSE
                 /\ wrun' = [wrun EXCEPT ![w].remove_attempted = TRUE,
                                         ![w].result = "Ok",
                                         ![w].attempted =
                                             Append(@, "cleanup")]
                 /\ wpc' = [wpc EXCEPT ![w] = "cb2"]
            ELSE /\ temp_audio' = TRUE
                 /\ wrun' = [wrun EXCEPT ![w].remove_attempted = TRUE,
                                         ![w].result = "Err",
                                         ![w].failed = "cleanup",
                                         ![w].attempted =
                                             Append(@, "cleanup")]
                 /\ wpc' = [wpc EXCEPT ![w] = "err"]
       ELSE /\ ok
            /\ temp_audio' = FALSE
            /\ wrun' = [wrun EXCEPT ![w].result = "Ok",
                                    ![w].attempted = Append(@, "cleanup")]
            /\ wpc' = [wpc EXCEPT ![w] = "cb2"]
    /\ UNCHANGED <<fgvars, progress_info, hist, mutex, wcfg, srt_file>>
    /\ UNCHANGED units

\* the closure returns: the thread ends and its locals are dropped
Exit(w) ==
    /\ wpc' = [wpc EXCEPT ![w] = "none"]
    /\ wcfg' = [wcfg EXCEPT ![w] = None]
    /\ wrun' = [wrun EXCEPT ![w] = Run_default]

\* worker closure, line 214: read_to_string of the temporary subtitle file
read_to_string(w, ok) ==
    /\ wpc[w] = "read"
    /\ ok => srt_file[wcfg[w]] # "absent"
    /\ wpc' = [wpc EXCEPT ![w] = IF ok THEN "completed" ELSE "read_err"]
    /\ UNCHANGED <<fgvars, progress_info, hist, mutex, wcfg, wrun, files>>
    /\ UNCHANGED units

\* worker_completed that stores the status but not the subtitle content
worker_completed_NoContent(w) ==
    /\ wpc[w] = "completed"
    /\ mutex = Free
    /\ mutex' = w
    /\ SetInfo([progress_info EXCEPT !.status = Completed,
                                     !.message = MsgCompleted,
                                     !.progress = 100])
    /\ wpc' = [wpc EXCEPT ![w] = "remove_temp"]
    /\ wrun' = [wrun EXCEPT ![w].events = @ + 1]
    /\ UNCHANGED <<fgvars, wcfg, files>>
    /\ UNCHANGED units

\* worker closure, lines 217-221: the Completed update; the guard `info`
\* lives until the end of the arm, so the lock stays held
worker_completed(w) ==
    /\ wpc[w] = "completed"
    /\ mutex = Free
    /\ mutex' = w
    /\ SetInfo([status |-> Completed, message |-> MsgCompleted,
                progress |-> 100,
                subtitle_content |-> SrtContent(wcfg[w])])
    /\ wpc' = [wpc EXCEPT ![w] = "remove_temp"]
    /\ wrun' = [wrun EXCEPT ![w].events = @ + 1]
    /\ UNCHANGED <<fgvars, wcfg, files>>
    /\ UNCHANGED units

\* worker closure, lines 224-227: remove_file of the temporary subtitle
\* file, then the guard is dropped
worker_remove_temp(w, ok) ==
    /\ wpc[w] = "remove_temp"
    /\ mutex = w
    /\ srt_file' = IF ok THEN [srt_file EXCEPT ![wcfg[w]] = "absent"]
                   ELSE srt_file
    /\ mutex' = Free
    /\ Exit(w)
    /\ UNCHANGED <<fgvars, progress_info, hist, temp_audio>>
    /\ UNCHANGED units

\* worker_read_error that ends the thread without writing a status
worker_read_error_NoWrite(w) ==
    /\ wpc[w] = "read_err"
    /\ mutex = Free
    /\ Exit(w)
    /\ UNCHANGED <<fgvars, progress_info, hist, mutex, files>>
    /\ UNCHANGED units

\* worker closure, lines 228-231: the subtitle file could not be read
worker_read_error(w) ==
    /\ wpc[w] = "read_err"
    /\ mutex = Free
    /\ SetInfo([progress_info EXCEPT !.status = Error("read_srt")])
    /\ Exit(w)
    /\ UNCHANGED <<fgvars, mutex, files>>
    /\ UNCHANGED units

\* worker closure, lines 234-238: the pipeline returned Err(e)
worker_error(w) ==
    /\ wpc[w] = "err"
    /\ mutex = Free
    /\ SetInfo([progress_info EXCEPT !.status = Error(wrun[w].failed),
                                     !.progress = 0])
    /\ Exit(w)
    /\ UNCHANGED <<fgvars, mutex, files>>
    /\ UNCHANGED units

\* one step of worker thread w
Worker(w) ==
    \/ process_with_progress_begin(w)
    \/ \E ok \in BOOLEAN : transcribe_check(w, ok)
    \/ \E ok \in BOOLEAN, created \in BOOLEAN :
           extract_audio_from_video(w, ok, created)
    \/ \E ok \in BOOLEAN : transcribe_step(w, ok)
    \/ \E o \in {"ok", "create_err", "write_err"} : generate_srt_file(w, o)
    \/ \E ok \in BOOLEAN : transcribe_cleanup(w, ok)
    \/ process_with_progress_end(w)
    \/ \E ok \in BOOLEAN : read_to_string(w, ok)
    \/ worker_completed(w)
    \/ \E ok \in BOOLEAN : worker_remove_temp(w, ok)
    \/ worker_read_error(w)
    \/ worker_error(w)

\* one step of the foreground thread
Foreground ==
    \/ render_bottom_panel
    \/ render_main_panel
    \/ no_click
    \/ show_processing
    \/ \E p \in Inputs \cup {None} : select_input_file(p)
    \/ \E w \in Workers : start_processing(w)
    \/ click_save
    \/ click_reset
    \/ reset_to_initial
    \/ update_check
    \/ save_subtitle_file
    \/ \E d \in {"cancel", "ok", "err"} : save_dialog(d)
    \/ save_status

Next == Foreground \/ \E w \in Workers : Worker(w)

Spec == Init /\ [][Next]_vars

\* the worker threads are scheduled and every call they make returns; the
\* foreground is repainted every 100 ms (update, line 380) and its dialogs
\* return
FairSpec ==
    /\ Spec
    /\ \A w \in Workers : WF_vars(Worker(w))
    /\ WF_vars(Foreground)

\* ------------------------------------------------------------ properties
status == progress_info.status
Terminal(s) == s.tag \in {"Completed", "Error"}
EndsWith(h, t) ==
    /\ Len(h) >= Len(t)
    /\ SubSeq(h, Len(h) - Len(t) + 1, Len(h)) = t
\* transcribe_audio has returned in worker w
Returned(w) == wrun[w].result # "none"
\* worker w has not yet written its terminal status
InFlight(w) == wpc[w] \notin {"none", "remove_temp"}
\* the positions at which a worker is about to do file or process I/O
IOPositions == {"exists", "model", "extract", "parse", "ctx", "srt",
                "cleanup", "read", "remove_temp"}

\* C1: every run of transcribe_audio that reached the audio extraction has
\* attempted to remove the temporary audio file when it returns, on success
\* and on failure alike.
C1_CleanupOnEveryExit ==
    \A w \in Workers :
        (Returned(w) /\ wrun[w].extract_reached) => wrun[w].remove_attempted

\* C2: a failed removal of the temporary audio file does not change the
\* outcome: a run whose stages up to the subtitle write all succeeded
\* returns Ok, and the GUI never shows the cleanup failure as an Error.
C2_CleanupFailureIsWarning ==
    /\ \A w \in Workers :
           (Returned(w) /\ wrun[w].failed \in {"none", "cleanup"})
               => wrun[w].result = "Ok"
    /\ status # Error("cleanup")

\* C3: at most one worker is in flight at any time, i.e. at most one worker
\* thread exists that has not yet written its terminal status.
C3_OneWorkerInFlight ==
    Cardinality({w \in Workers : InFlight(w)}) <= 1

\* a later run is in flight while the foreground renders the Processing view
C3_Witness ==
    /\ \E w \in Workers : InFlight(w)
    /\ fpc = "main"
    /\ fstatus = Processing
    /\ \E i \in 1..Len(hist) : hist[i] = "Completed"

\* C4: the status leaves Processing only in a step of a worker thread that
\* writes Completed or Error; no step of the foreground changes it.
C4_ProcessingLeftByWorkerOnly ==
    [][(status = Processing /\ status' # Processing)
          => /\ Terminal(status')
             /\ UNCHANGED fgvars
             /\ \E w \in Workers :
                    /\ wpc[w] \in {"completed", "read_err", "err"}
                    /\ wpc'[w] \in {"remove_temp", "none"}]_vars

\* the foreground has run through the Processing view while the status is
\* still Processing
C4_Witness ==
    /\ status = Processing
    /\ fstatus = Processing
    /\ fpc = "check"

\* C5: a run that entered Processing eventually writes a terminal status;
\* a worker's write of the status is its last write to the record and is
\* terminal; a terminal status is replaced only by the foreground; and the
\* foreground eventually sees it (in the main panel or in the check that
\* follows it).
C5_TerminalStatusWritten ==
    /\ (status = Processing) ~> Terminal(status)
    /\ (status = Processing) ~>
           \/ fpc = "main" /\ Terminal(fstatus)
           \/ fpc = "save" /\ fret = "idle"
    /\ [][\A w \in Workers :
             (wpc[w] # "none" /\ wpc'[w] # wpc[w]
                  /\ progress_info' # progress_info)
                 => \/ ~Terminal(status) /\ status' = status
                    \/ /\ ~Terminal(status)
                       /\ Terminal(status')
                       /\ wpc'[w] \in {"remove_temp", "none"}]_vars
    /\ [][(Terminal(status) /\ status' # status)
             => (wpc' = wpc /\ fpc \in {"reset", "save_status"})]_vars

\* a worker has written Completed after a run, and has ended
C5_Witness ==
    /\ status = Completed
    /\ \A w \in Workers : wpc[w] = "none"
    /\ fpc = "main"
    /\ fstatus = Completed

\* C6: whenever the lock is free, the record a reader finds is the result
\* of whole updates: Completed comes with the content, its message and
\* progress 100; Processing comes with a message and the progress written
\* together with it; a pipeline Error comes with progress 0; Initial is the
\* default record.
C6_UpdatesAtomic ==
    mutex = Free =>
        /\ status = Completed =>
               /\ progress_info.subtitle_content # None
               /\ progress_info.message = MsgCompleted
               /\ progress_info.progress = 100
        /\ status = Processing =>
               <<progress_info.message, progress_info.progress>> \in
                   {<<MsgGenerating, 0>>, <<MsgProcessing, 50>>,
                    <<MsgProcessed, 100>>}
        /\ (status.tag = "Error" /\ status.err \in StageSet) =>
               progress_info.progress = 0
        /\ status = SaveSuccess => progress_info.message = MsgSaved
        /\ status = FileSelected => progress_info.message = MsgSelected
        /\ status = Initial => progress_info = ProgressInfo_default

\* the foreground has read the content of a Completed record under the lock
C6_Witness ==
    /\ fpc = "save_dialog"
    /\ status = Completed
    /\ fcontent # None
    /\ fcontent = progress_info.subtitle_content

\* C7: no thread is at a file or process I/O call while it holds the lock.
C7_NoIOUnderLock ==
    \A w \in Workers : mutex = w => wpc[w] \notin IOPositions

\* C8: the five actions of the scenario lead from each status of the
\* sequence to the next one: select-file (file picked) from Initial gives
\* FileSelected, start gives Processing, the worker's successful completion
\* gives Completed, save with a successful write gives SaveSuccess, and
\* next gives Initial.
C8_ScenarioSteps ==
    [][/\ ((\E p \in Inputs : select_input_file(p)) /\ status = Initial)
              => status' = FileSelected
       /\ ((\E w \in Workers : start_processing(w))
              /\ status = FileSelected)
              => status' = Processing
       /\ ((\E w \in Workers : worker_completed(w)) /\ status = Processing)
              => status' = Completed
       /\ (save_status /\ fsave = "ok" /\ status = Completed)
              => status' = SaveSuccess
       /\ (reset_to_initial /\ status = SaveSuccess)
              => status' = Initial]_vars

\* the whole sequence of the scenario has been run through
C8_Witness ==
    /\ EndsWith(hist, <<"Initial", "FileSelected", "Processing",
                        "Completed", "SaveSuccess", "Initial">>)
    /\ out_file

\* C9: a worker whose pipeline failed turns Processing into Error with the
\* failure's message; in Error the main panel offers only restart; and any
\* change made to the record or the paths while the status is Error is the
\* restart: status Initial, no input path, no output path, no subtitle
\* content, progress 0.
C9_ErrorThenRestart ==
    /\ [][\A w \in Workers :
             (wpc[w] = "err" /\ wpc'[w] = "none")
                 => (status = Processing
                         /\ status' = Error(wrun[w].failed))]_vars
    /\ [](status.tag = "Error" => Buttons(status) = {"restart"})
    /\ [][(status.tag = "Error"
              /\ <<progress_info, input_path, output_path>>'
                     # <<progress_info, input_path, output_path>>)
             => /\ fpc = "reset"
                /\ status' = Initial
                /\ input_path' = None
                /\ output_path' = None
                /\ progress_info'.subtitle_content = None
                /\ progress_info'.progress = 0]_vars

\* a failed pipeline has been followed by a restart
C9_Witness ==
    /\ EndsWith(hist, <<"Processing", "Error", "Initial">>)
    /\ input_path = None
    /\ output_path = None
    /\ progress_info = ProgressInfo_default

\* C10 as stated: from Completed the status changes only to SaveSuccess or
\* to Error, whatever the outcome of the save dialog.
C10_OnlySaveSuccessOrError ==
    [][(status = Completed /\ status' # status)
          => status'.tag \in {"SaveSuccess", "Error"}]_vars

\* C10 as amended: from Completed the status changes only to SaveSuccess
\* (the file was written), to Error (the write failed) or, when the save
\* dialog is cancelled, to Initial by reset_to_initial.
C10_SaveSuccessErrorOrInitial ==
    [][(status = Completed /\ status' # status)
          => \/ fpc = "save_status" /\ fsave = "ok" /\ status' = SaveSuccess
             \/ fpc = "save_status" /\ fsave = "err"
                    /\ status' = Error("save")
             \/ /\ fpc = "reset"
                /\ progress_info' = ProgressInfo_default
                /\ input_path' = None
                /\ output_path' = None]_vars

\* the save dialog of a Completed run has been cancelled
C10_Witness ==
    /\ EndsWith(hist, <<"Completed", "Initial">>)
    /\ fpc = fret

\* C11 as stated: every reselect taken in status FileSelected, i.e. every
\* step of select_input_file and of the reset it may call, leaves the
\* status FileSelected with an input path set.
C11_ReselectKeepsFileSelected ==
    [][(status = FileSelected
           /\ \/ \E p \in Inputs \cup {None} : select_input_file(p)
              \/ reset_to_initial)
          => (status' = FileSelected /\ input_path' # None)]_vars

\* C11 as amended: a reselect in which the dialog returns a file p leaves
\* the status FileSelected with input path p; a cancelled dialog calls
\* reset_to_initial, which gives Initial with no input path.
C11_ReselectPickedOrCancelled ==
    [][status = FileSelected
          => /\ \A p \in Inputs :
                    select_input_file(p)
                        => (status' = FileSelected /\ input_path' = p)
             /\ select_input_file(None)
                    => (fpc' = "reset" /\ status' = FileSelected)
             /\ reset_to_initial
                    => (status' = Initial /\ input_path' = None)]_vars

\* a reselect was cancelled in the FileSelected view
C11_Witness ==
    /\ EndsWith(hist, <<"FileSelected", "Initial">>)
    /\ fstatus = FileSelected
    /\ fpc = "check"
    /\ input_path = None

\* C12: while the status is Processing, every change of the record is made
\* by a step of a worker thread; no step of the foreground writes it.
C12_WorkerIsOnlyWriter ==
    [][(status = Processing /\ progress_info' # progress_info)
          => /\ UNCHANGED fgvars
             /\ \E w \in Workers : wpc[w] # "none" /\ wpc'[w] # wpc[w]]_vars

\* the foreground has read the record after the worker's first update of it
C12_Witness ==
    /\ status = Processing
    /\ progress_info.message = MsgProcessing
    /\ fstatus = Processing
    /\ fpc = "check"

IsPrefix(a, b) == Len(a) <= Len(b) /\ a = SubSeq(b, 1, Len(a))
\* the stages the specification names: model check, extraction, decode,
\* transcribe, write, cleanup
NamedStages == {"model", "extract", "parse", "full", "srt", "cleanup"}
IsNamed(s) == s \in NamedStages

\* C13: a run whose input file does not exist has attempted nothing but the
\* existence check when it returns its error: no model check, no decoder,
\* and the failing step and the steps up to the return leave the temporary
\* audio file and the subtitle files untouched.
C13_MissingInputFailsFirst ==
    /\ [](\A w \in Workers :
             wrun[w].failed = "exists"
                 => /\ wrun[w].attempted = <<"exists">>
                    /\ wrun[w].result = "Err"
                    /\ ~wrun[w].extract_reached
                    /\ wpc[w] = "err")
    /\ [][\A w \in Workers :
             (wrun'[w].failed = "exists" /\ wpc'[w] # "none")
                 => UNCHANGED files]_vars

\* a run has failed because its input file does not exist
C13_Witness ==
    \E w \in Workers : wrun[w].failed = "exists" /\ wpc[w] = "err"

\* C14: the stages a run has attempted are always a prefix of the fixed
\* order (so none is attempted twice); a failed stage is the last one
\* attempted and nothing is attempted after it; a subtitle file is created
\* or written only by the write stage of a run none of whose stages failed.
C14_StagesInOrderOnce ==
    /\ [](\A w \in Workers :
             /\ IsPrefix(wrun[w].attempted, Stages)
             /\ wrun[w].failed # "none"
                    => /\ wrun[w].attempted # <<>>
                       /\ wrun[w].attempted[Len(wrun[w].attempted)]
                              = wrun[w].failed
                       /\ wrun[w].result = "Err")
    /\ [][\A w \in Workers :
             wrun[w].failed # "none"
                 => wrun'[w].attempted \in {wrun[w].attempted, <<>>}]_vars
    /\ [][\A i \in Inputs :
             (srt_file'[i] # srt_file[i] /\ srt_file'[i] # "absent")
                 => \E w \in Workers :
                        /\ wpc[w] = "srt"
                        /\ wcfg[w] = i
                        /\ wrun[w].failed = "none"]_vars

\* a run has failed at the inference after the stages before it
C14_Witness ==
    \E w \in Workers :
        /\ wrun[w].failed = "full"
        /\ Len(wrun[w].attempted) = 8
        /\ wpc[w] = "err"

\* C15: a run has emitted at least one progress event for each of the named
\* stages it has gone through.
C15_EventPerStage ==
    \A w \in Workers :
        Len(SelectSeq(wrun[w].attempted, IsNamed)) <= wrun[w].events

\* ----------------------------------------------------------- model store
\* largest model file, in bytes, the server can announce
MaxModelSize == 6
\* largest chunk, in bytes, the body stream yields at once
MaxChunk == 3

\* ensure_model_exists that downloads without looking for the file
ensure_model_exists_AlwaysDownload(dir_ok) ==
    /\ ms.pc = "idle"
    /\ ms' = IF ~dir_ok
             THEN [Ms_idle EXCEPT !.file = ms.file, !.file0 = ms.file,
                                  !.partial = ms.partial,
                                  !.result = "ErrDir"]
             ELSE [Ms_idle EXCEPT !.file = ms.file, !.file0 = ms.file,
                                  !.partial = ms.partial,
                                  !.pc = "send"]
    /\ UNCHANGED <<guivars, wav, srt, ts, cli, tmp>>

\* ensure_model_exists (lines 27-37): get_models_dir, then the model is
\* downloaded only if model_path.exists() is false
ensure_model_exists(dir_ok) ==
    /\ ms.pc = "idle"
    /\ ms' = IF ~dir_ok
             THEN [Ms_idle EXCEPT !.file = ms.file, !.file0 = ms.file,
                                  !.partial = ms.partial,
                                  !.result = "ErrDir"]
             ELSE IF ms.file # Absent
             THEN [Ms_idle EXCEPT !.file = ms.file, !.file0 = ms.file,
                                  !.partial = ms.partial,
                                  !.result = "Ok"]
             ELSE [Ms_idle EXCEPT !.file = ms.file, !.file0 = ms.file,
                                  !.partial = ms.partial,
                                  !.pc = "send"]
    /\ UNCHANGED <<guivars, wav, srt, ts, cli, tmp>>

\* download_model, lines 45-55: the GET request is sent and the response
\* announces a content length len, or none
download_model_send(ok, len) ==
    /\ ms.pc = "send"
    /\ ms' = IF ok
             THEN [ms EXCEPT !.requests = @ + 1, !.total = len,
                             !.pc = "length"]
             ELSE [ms EXCEPT !.requests = @ + 1, !.result = "Err",
                             !.pc = "idle"]
    /\ UNCHANGED <<guivars, wav, srt, ts, cli, tmp>>

\* download_model that writes a body of unknown length as it comes
download_model_length_Ignored ==
    /\ ms.pc = "length"
    /\ ms' = [ms EXCEPT !.pc = "create"]
    /\ UNCHANGED <<guivars, wav, srt, ts, cli, tmp>>

\* download_model, lines 53-55: content_length() must be known
download_model_length ==
    /\ ms.pc = "length"
    /\ ms' = IF ms.total = NoLength
             THEN [ms EXCEPT !.result = "Err", !.pc = "idle"]
             ELSE [ms EXCEPT !.pc = "create"]
    /\ UNCHANGED <<guivars, wav, srt, ts, cli, tmp>>

\* download_model, lines 64-66: File::create makes the file empty
download_model_create(ok) ==
    /\ ms.pc = "create"
    /\ ms' = IF ok
             THEN [ms EXCEPT !.file = 0, !.downloaded = 0, !.partial = TRUE,
                             !.pc = "stream"]
             ELSE [ms EXCEPT !.result = "Err", !.pc = "idle"]
    /\ UNCHANGED <<guivars, wav, srt, ts, cli, tmp>>

\* the bytes of the body not yet received; a body of unknown length ends
\* where the server ends it
Remaining ==
    IF ms.total = NoLength THEN MaxModelSize - ms.downloaded
    ELSE ms.total - ms.downloaded

\* download_model that starts the file again with every chunk
download_model_chunk_Overwrite(n, written) ==
    /\ ms.pc = "stream"
    /\ n <= Remaining
    /\ written <= n
    /\ ms' = IF written = n
             THEN [ms EXCEPT !.file = n, !.downloaded = @ + n]
             ELSE [ms EXCEPT !.file = written, !.result = "Err",
                             !.pc = "idle"]
    /\ UNCHANGED <<guivars, wav, srt, ts, cli, tmp>>

\* download_model, lines 68-73: a chunk of n bytes arrives and write_all
\* appends it; a failing write_all has written fewer than n bytes
download_model_chunk(n, written) ==
    /\ ms.pc = "stream"
    /\ n <= Remaining
    /\ written <= n
    /\ ms' = IF written = n
             THEN [ms EXCEPT !.file = @ + n, !.downloaded = @ + n]
             ELSE [ms EXCEPT !.file = @ + written, !.result = "Err",
                             !.pc = "idle"]
    /\ UNCHANGED <<guivars, wav, srt, ts, cli, tmp>>

\* download_model, line 69: the stream yields an error before the body
\* is complete
download_model_stream_error ==
    /\ ms.pc = "stream"
    /\ Remaining > 0
    /\ ms' = [ms EXCEPT !.result = "Err", !.pc = "idle"]
    /\ UNCHANGED <<guivars, wav, srt, ts, cli, tmp>>

\* download_model, lines 68 and 75-77: the stream ends and Ok is returned;
\* a body with a content length ends after exactly that many bytes
download_model_finish ==
    /\ ms.pc = "stream"
    /\ ms.total # NoLength => Remaining = 0
    /\ ms' = [ms EXCEPT !.partial = (ms.total # NoLength /\ Remaining > 0),
                        !.result = "Ok", !.pc = "idle"]
    /\ UNCHANGED <<guivars, wav, srt, ts, cli, tmp>>

\* a model file left by earlier runs: none, or one of any size
ModelStoreInit ==
    /\ GuiInit
    /\ tmp = Tmp_idle
    /\ \E f \in {Absent} \cup 0..MaxModelSize :
           ms = [Ms_idle EXCEPT !.file = f, !.file0 = f]
    /\ wav = Wav_idle
    /\ srt = Srt_idle
    /\ ts = Ts_idle
    /\ cli = Cli_idle

ModelStoreNext ==
    \/ \E dir_ok \in BOOLEAN : ensure_model_exists(dir_ok)
    \/ \E ok \in BOOLEAN, len \in {NoLength} \cup 0..MaxModelSize :
           download_model_send(ok, len)
    \/ download_model_length
    \/ \E ok \in BOOLEAN : download_model_create(ok)
    \/ \E n \in 1..MaxChunk, written \in 0..MaxChunk :
           download_model_chunk(n, written)
    \/ download_model_stream_error
    \/ download_model_finish

ModelStoreSpec == ModelStoreInit /\ [][ModelStoreNext]_vars

\* C16: in a call of ensure_model_exists that found the model file present,
\* no network request is made and the file keeps the size it had, and the
\* call returns Ok as soon as the models directory is resolved.
C16_PresentModelUntouched ==
    ms.file0 # Absent =>
        /\ ms.requests = 0
        /\ ms.file = ms.file0
        /\ ms.pc = "idle"
        /\ ms.result \in {"none", "Ok", "ErrDir"}

\* ensure_model_exists has returned Ok for a model that was present
C16_Witness ==
    /\ ms.file0 # Absent
    /\ ms.result = "Ok"
    /\ ms.requests = 0

C18_UnknownSizeFails ==
    ms.total = NoLength =>
        /\ ms.file = Absent
        /\ ms.pc \in {"length", "idle"}
        /\ ms.pc = "idle" => ms.result = "Err"

\* a download has failed for want of a content length
C18_Witness ==
    /\ ms.total = NoLength
    /\ ms.requests = 1
    /\ ms.pc = "idle"
    /\ ms.result = "Err"

\* C26: across any sequence of calls of ensure_model_exists, also after a
\* download that failed midway, a call that returns Ok returns a path that
\* holds the complete model file, never a file a failed download left partial.
C26_OkMeansComplete ==
    (ms.pc = "idle" /\ ms.result = "Ok") => ~ms.partial

\* ------------------------------------------------------- audio extractor
\* the headers a decoded file may carry
Channels == {1, 2}
Formats == {"Int", "Float"}
Rates == {8000, 16000, 44100}
Bits == {8, 16, 24}

\* parse_wav_file without the check of the bits per sample
parse_wav_file_NoBitsCheck(h) ==
    IF ~h.readable THEN "ErrOpen"
    ELSE IF h.channels # 1 THEN "ErrChannels"
    ELSE IF h.format # "Int" THEN "ErrFormat"
    ELSE IF h.rate # 16000 THEN "ErrRate"
    ELSE "Ok"

\* parse_wav_file (lines 35-55): WavReader::open, then the four checks of
\* the header in the order of the source
parse_wav_file(h) ==
    IF ~h.readable THEN "ErrOpen"
    ELSE IF h.channels # 1 THEN "ErrChannels"
    ELSE IF h.format # "Int" THEN "ErrFormat"
    ELSE IF h.rate # 16000 THEN "ErrRate"
    ELSE IF h.bits # 16 THEN "ErrBits"
    ELSE "Ok"

\* transcribe_audio, line 29: extract_audio_from_video returns the exit
\* status of ffmpeg, and a failure ends the run
audio_extract ==
    /\ wav.pc = "idle"
    /\ wav' = IF wav.tool_ok
              THEN [wav EXCEPT !.pc = "parse"]
              ELSE [wav EXCEPT !.pc = "done", !.run = "Err"]
    /\ UNCHANGED <<guivars, ms, srt, ts, cli, tmp>>

\* transcribe_audio, line 32: parse_wav_file(&temp_audio_path)?
audio_parse ==
    /\ wav.pc = "parse"
    /\ wav' = [wav EXCEPT !.pc = "done",
                          !.parsed = parse_wav_file(wav),
                          !.run = IF parse_wav_file(wav) = "Ok"
                                  THEN "Continues" ELSE "Err"]
    /\ UNCHANGED <<guivars, ms, srt, ts, cli, tmp>>

\* any file at the temporary path, and any exit status of ffmpeg
AudioInit ==
    /\ GuiInit
    /\ tmp = Tmp_idle
    /\ ms = Ms_idle
    /\ srt = Srt_idle
    /\ ts = Ts_idle
    /\ cli = Cli_idle
    /\ \E c \in Channels, f \in Formats, r \in Rates, b \in Bits,
          rd \in BOOLEAN, t \in BOOLEAN :
           wav = [Wav_idle EXCEPT !.channels = c, !.format = f, !.rate = r,
                                  !.bits = b, !.readable = rd,
                                  !.tool_ok = t]

AudioNext == audio_extract \/ audio_parse

AudioSpec == AudioInit /\ [][AudioNext]_vars

\* the four properties parse_wav_file asks of a readable WAV file
GoodHeader ==
    /\ wav.readable
    /\ wav.channels = 1
    /\ wav.format = "Int"
    /\ wav.rate = 16000
    /\ wav.bits = 16

\* C19: parse_wav_file returns Ok exactly for the readable files whose
\* header has 1 channel, integer samples, 16000 Hz and 16 bits; and a run
\* whose file is not of that kind has failed when the decode stage is over,
\* whatever the exit status of the decoder was.
C19_HeaderCheck ==
    wav.pc = "done" =>
        /\ wav.parsed # "none" => (wav.parsed = "Ok" <=> GoodHeader)
        /\ ~GoodHeader => wav.run = "Err"
        /\ wav.run = "Continues" => (wav.tool_ok /\ GoodHeader)

\* a stereo file was rejected although the decoder exited successfully
C19_Witness ==
    /\ wav.pc = "done"
    /\ wav.tool_ok
    /\ wav.readable
    /\ wav.channels = 2
    /\ wav.parsed = "ErrChannels"
    /\ wav.run = "Err"

\* ---------------------------------------------------- subtitle formatter
\* largest number of segments the engine returns
MaxSegments == 2
\* longest segment text, in characters
MaxTextLen == 2

\* texts are sequences of characters; documents are sequences of lines
Chars == {" ", "a"}
Texts == UNION {[1..n -> Chars] : n \in 0..MaxTextLen}
\* the start and end times of a segment, in centiseconds
TimePairs == {<<0, 150>>, <<120, 199>>}
SegmentSet == [t0 : {p[1] : p \in TimePairs}, t1 : {p[2] : p \in TimePairs},
               text : Texts]

DigitChars == <<"0", "1", "2", "3", "4", "5", "6", "7", "8", "9">>
RECURSIVE Decimal(_)
\* format!("{}", n)
Decimal(n) ==
    IF n < 10 THEN <<DigitChars[n + 1]>>
    ELSE Decimal(n \div 10) \o <<DigitChars[(n % 10) + 1]>>
\* format!("{:02}", n) and format!("{:03}", n)
Pad2(n) == IF n < 10 THEN <<"0">> \o Decimal(n) ELSE Decimal(n)
Pad3(n) == IF n < 100 THEN <<"0">> \o Pad2(n) ELSE Decimal(n)

\* ---- f64: a finite non-negative binary64 value is the exact number
\* bits / 2^e, bits being its binary digits, lowest first
Zeros(k) == [j \in 1..k |-> 0]
\* long numbers are handled in limbs of LimbBits binary digits
LimbBits == 12
Pow2 == <<1, 2, 4, 8, 16, 32, 64, 128, 256, 512, 1024, 2048, 4096>>
Radix == Pow2[LimbBits + 1]
Bit(b, j) == IF j <= Len(b) THEN b[j] ELSE 0
RECURSIVE LimbAt(_, _, _)
LimbAt(b, from, t) ==
    IF t = LimbBits THEN 0
    ELSE Bit(b, from + t) * Pow2[t + 1] + LimbAt(b, from, t + 1)
Limbs(b) ==
    [k \in 1..((Len(b) + LimbBits - 1) \div LimbBits) |->
        LimbAt(b, LimbBits * (k - 1) + 1, 0)]
BitsOf(l) ==
    [j \in 1..(LimbBits * Len(l)) |->
        (l[((j - 1) \div LimbBits) + 1]
             \div Pow2[((j - 1) % LimbBits) + 1]) % 2]
RECURSIVE NatLimbs(_)
NatLimbs(n) ==
    IF n = 0 THEN <<>> ELSE <<n % Radix>> \o NatLimbs(n \div Radix)
RECURSIVE LimbsNat(_)
LimbsNat(l) == IF l = <<>> THEN 0 ELSE l[1] + Radix * LimbsNat(Tail(l))
RECURSIVE DivLimbs(_, _)
\* quotient and remainder of a long number by a small one
DivLimbs(l, d) ==
    IF l = <<>> THEN [q |-> <<>>, r |-> 0]
    ELSE LET hi == DivLimbs(Tail(l), d)
             cur == Radix * hi.r + l[1]
         IN [q |-> <<cur \div d>> \o hi.q, r |-> cur % d]
RECURSIVE MulLimbs(_, _, _)
\* product of a long number by a small one
MulLimbs(l, c, carry) ==
    IF l = <<>> THEN NatLimbs(carry)
    ELSE LET t == l[1] * c + carry
         IN <<t % Radix>> \o MulLimbs(Tail(l), c, t \div Radix)
NatBits(n) == BitsOf(NatLimbs(n))
BitsNat(b) == LimbsNat(Limbs(b))
DivSmall(b, d) ==
    LET x == DivLimbs(Limbs(b), d) IN [q |-> BitsOf(x.q), r |-> x.r]
MulSmall(b, c) == BitsOf(MulLimbs(Limbs(b), c, 0))
\* position of the highest digit 1, or 0
Top(b) ==
    IF \E j \in 1..Len(b) : b[j] = 1
    THEN CHOOSE j \in 1..Len(b) :
             b[j] = 1 /\ \A k \in (j + 1)..Len(b) : b[k] = 0
    ELSE 0
Inc(b) ==
    IF \A j \in 1..Len(b) : b[j] = 1 THEN Zeros(Len(b)) \o <<1>>
    ELSE LET z == CHOOSE j \in 1..Len(b) :
                      b[j] = 0 /\ \A k \in 1..(j - 1) : b[k] = 1
         IN [j \in 1..Len(b) |->
                IF j < z THEN 0 ELSE IF j = z THEN 1 ELSE b[j]]
\* the significand of a binary64 has 53 digits
Mantissa == 53
\* digits a quotient is computed to before it is rounded
GuardBits == 84
\* a result is rounded to the nearest binary64, ties to even; sticky says
\* that digits 1 were already cut off below b
RoundNearestEven(b, sticky) ==
    LET drop == Top(b) - Mantissa
    IN IF drop <= 0 THEN b
       ELSE LET kept == SubSeq(b, drop + 1, Top(b))
                rest == sticky \/ \E j \in 1..(drop - 1) : b[j] = 1
                up == b[drop] = 1 /\ (rest \/ kept[1] = 1)
            IN Zeros(drop) \o (IF up THEN Inc(kept) ELSE kept)
\* `n as f64` of an integer below 2^53
f64_from(n) == [bits |-> NatBits(n), e |-> 0]
\* x / c for a whole number c
f64_div(x, c) ==
    LET d == DivSmall(Zeros(GuardBits) \o x.bits, c)
    IN [bits |-> RoundNearestEven(d.q, d.r # 0), e |-> x.e + GuardBits]
\* x * c for a whole number c
f64_mul(x, c) ==
    [bits |-> RoundNearestEven(MulSmall(x.bits, c), FALSE), e |-> x.e]
\* x % c for a whole number c: the remainder is exact
f64_rem(x, c) ==
    LET frac == [j \in 1..x.e |-> Bit(x.bits, j)]
        whole == SubSeq(x.bits, x.e + 1, Len(x.bits))
    IN [bits |-> frac \o NatBits(DivSmall(whole, c).r), e |-> x.e]
\* `x as u32`, for x below 2^31
f64_as_u32(x) == BitsNat(SubSeq(x.bits, x.e + 1, Len(x.bits)))

\* format_timestamp, lines 8-15
format_timestamp(seconds) ==
    LET hours == f64_as_u32(f64_div(seconds, 3600))
        minutes == f64_as_u32(f64_div(f64_rem(seconds, 3600), 60))
        secs == f64_as_u32(f64_rem(seconds, 60))
        millisecs == f64_as_u32(f64_mul(f64_rem(seconds, 1), 1000))
    IN Pad2(hours) \o <<":">> \o Pad2(minutes) \o <<":">> \o Pad2(secs)
           \o <<",">> \o Pad3(millisecs)

\* generate_srt_file, lines 30-31: format_timestamp(t as f64 / 100.0), for
\* each time the engine reports
CueTimes == UNION {{p[1], p[2]} : p \in TimePairs}
Formatted ==
    [cs \in CueTimes |-> format_timestamp(f64_div(f64_from(cs), 100))]

RECURSIVE trim_start(_)
trim_start(t) ==
    IF t # <<>> /\ t[1] = " " THEN trim_start(Tail(t)) ELSE t
RECURSIVE trim_end(_)
trim_end(t) ==
    IF t # <<>> /\ t[Len(t)] = " " THEN trim_end(SubSeq(t, 1, Len(t) - 1))
    ELSE t
\* str::trim
trim(t) == trim_end(trim_start(t))

\* the four lines generate_srt_file writes for the segment of index i
\* (0-based), lines 33-36
Block(i, seg) ==
    << Decimal(i + 1),
       Formatted[seg.t0] \o <<" ", "-", "-", ">", " ">>
           \o Formatted[seg.t1],
       trim(seg.text),
       <<>> >>

\* generate_srt_file, line 19: File::create makes the file empty
generate_srt_file_create(ok) ==
    /\ srt.pc = "idle"
    /\ srt' = IF ok
              THEN [srt EXCEPT !.exists = TRUE, !.doc = <<>>, !.pc = "count"]
              ELSE [srt EXCEPT !.result = "Err", !.pc = "done"]
    /\ UNCHANGED <<guivars, ms, wav, ts, cli, tmp>>

\* generate_srt_file, line 21: full_n_segments
generate_srt_file_count(ok) ==
    /\ srt.pc = "count"
    /\ srt' = IF ok
              THEN [srt EXCEPT !.i = 0, !.pc = "loop"]
              ELSE [srt EXCEPT !.result = "Err", !.pc = "done"]
    /\ UNCHANGED <<guivars, ms, wav, ts, cli, tmp>>

\* generate_srt_file_block that numbers the blocks from 0
generate_srt_file_block_ZeroBased(written) ==
    /\ srt.pc = "loop"
    /\ srt.i < Len(srt.segments)
    /\ LET b == Block(srt.i, srt.segments[srt.i + 1])
           z == [b EXCEPT ![1] = Decimal(srt.i)]
       IN srt' = IF written = 4
                 THEN [srt EXCEPT !.doc = @ \o z, !.i = @ + 1]
                 ELSE [srt EXCEPT !.doc = @ \o SubSeq(z, 1, written),
                                  !.result = "Err", !.pc = "done"]
    /\ UNCHANGED <<guivars, ms, wav, ts, cli, tmp>>

\* generate_srt_file, lines 23-37: one pass of the loop; the getters or a
\* writeln may fail, after `written` of the four lines were written
generate_srt_file_block(written) ==
    /\ srt.pc = "loop"
    /\ srt.i < Len(srt.segments)
    /\ LET b == Block(srt.i, srt.segments[srt.i + 1])
       IN srt' = IF written = 4
                 THEN [srt EXCEPT !.doc = @ \o b, !.i = @ + 1]
                 ELSE [srt EXCEPT !.doc = @ \o SubSeq(b, 1, written),
                                  !.result = "Err", !.pc = "done"]
    /\ UNCHANGED <<guivars, ms, wav, ts, cli, tmp>>

\* generate_srt_file, lines 23 and 39: the loop is over
generate_srt_file_finish ==
    /\ srt.pc = "loop"
    /\ srt.i = Len(srt.segments)
    /\ srt' = [srt EXCEPT !.result = "Ok", !.pc = "done"]
    /\ UNCHANGED <<guivars, ms, wav, ts, cli, tmp>>

\* the segments of the engine's state, and the file at the output path:
\* none, or an older document
SubtitleInit ==
    /\ GuiInit
    /\ tmp = Tmp_idle
    /\ ms = Ms_idle
    /\ wav = Wav_idle
    /\ ts = Ts_idle
    /\ cli = Cli_idle
    /\ \E n \in 0..MaxSegments :
       \E segs \in [1..n -> SegmentSet] :
       \E old \in BOOLEAN :
           srt = [Srt_idle EXCEPT !.segments = segs, !.exists = old,
                                  !.doc = IF old THEN <<<<"a">>>> ELSE <<>>,
                                  !.exists0 = old,
                                  !.doc0 = IF old THEN <<<<"a">>>> ELSE <<>>]

SubtitleNext ==
    \/ \E ok \in BOOLEAN : generate_srt_file_create(ok)
    \/ \E ok \in BOOLEAN : generate_srt_file_count(ok)
    \/ \E written \in 0..4 : generate_srt_file_block(written)
    \/ generate_srt_file_finish

SubtitleSpec == SubtitleInit /\ [][SubtitleNext]_vars

RECURSIVE DecimalValue(_)
\* the number a line of digits denotes
DecimalValue(l) ==
    IF l = <<>> THEN 0
    ELSE 10 * DecimalValue(SubSeq(l, 1, Len(l) - 1))
             + (CHOOSE d \in 0..9 : DigitChars[d + 1] = l[Len(l)])
\* l is t without the spaces at its two ends
IsTrimOf(l, t) ==
    /\ l # <<>> => (l[1] # " " /\ l[Len(l)] # " ")
    /\ \E a \in 0..Len(t), b \in 0..Len(t) :
           /\ a + Len(l) + b = Len(t)
           /\ SubSeq(t, a + 1, a + Len(l)) = l
           /\ \A j \in (1..a) \cup ((a + Len(l) + 1)..Len(t)) : t[j] = " "

\* C20: a document written successfully for N segments has exactly 4 N
\* lines, and for k = 1..N the lines of block k are: the number k, the line
\* START --> END of segment k, the text of segment k without the spaces at
\* its ends, and one empty line.
C20_DocumentBlocks ==
    srt.result = "Ok" =>
        /\ srt.exists
        /\ Len(srt.doc) = 4 * Len(srt.segments)
        /\ \A k \in 1..Len(srt.segments) :
               /\ DecimalValue(srt.doc[4 * k - 3]) = k
               /\ srt.doc[4 * k - 2] =
                      Formatted[srt.segments[k].t0]
                          \o <<" ", "-", "-", ">", " ">>
                          \o Formatted[srt.segments[k].t1]
               /\ IsTrimOf(srt.doc[4 * k - 1], srt.segments[k].text)
               /\ srt.doc[4 * k] = <<>>

\* a document of two blocks was written, the second text needing a trim
C20_Witness ==
    /\ srt.result = "Ok"
    /\ Len(srt.segments) = 2
    /\ srt.segments[2].text = <<" ", "a">>
    /\ srt.doc[7] = <<"a">>
    /\ Len(srt.doc) = 8

RECURSIVE Document(_)
\* the complete document of a sequence of segments
Document(segs) ==
    IF segs = <<>> THEN <<>>
    ELSE Document(SubSeq(segs, 1, Len(segs) - 1))
             \o Block(Len(segs) - 1, segs[Len(segs)])

\* C23: the document is written in a single write that replaces the file at
\* the destination: at every point, also after a failure while it is
\* written, the destination holds its previous content or the complete new
\* document, never only some of the cues.
C23_PreviousOrComplete ==
    \/ srt.exists = srt.exists0 /\ srt.doc = srt.doc0
    \/ srt.exists /\ srt.doc = Document(srt.segments)

\* ---------------------------------------------------- timestamp formatter
\* largest engine time, in centiseconds
MaxCentis == 125
\* a decimal literal with four decimal places is given in units of 1/10000 s
LiteralScale == 10000
Literals == {0, 5000, 10000, 12000, 599996, 36612340}

\* a caller passes the literal d / 10000: the nearest binary64
literal_seconds ==
    /\ ts.pc = "idle"
    /\ ts.kind = "seconds"
    /\ ts' = [ts EXCEPT !.seconds = f64_div(f64_from(ts.input), LiteralScale),
                        !.pc = "format"]
    /\ UNCHANGED <<guivars, ms, wav, srt, cli, tmp>>

\* generate_srt_file, lines 30-31: `t as f64 / 100.0` of an engine time
cue_seconds ==
    /\ ts.pc = "idle"
    /\ ts.kind = "centiseconds"
    /\ ts' = [ts EXCEPT !.seconds = f64_div(f64_from(ts.input), 100),
                        !.pc = "format"]
    /\ UNCHANGED <<guivars, ms, wav, srt, cli, tmp>>

\* format_timestamp, lines 8-15
format_timestamp_call ==
    /\ ts.pc = "format"
    /\ ts' = [ts EXCEPT !.out = format_timestamp(ts.seconds), !.pc = "done"]
    /\ UNCHANGED <<guivars, ms, wav, srt, cli, tmp>>

TimestampInit ==
    /\ GuiInit
    /\ tmp = Tmp_idle
    /\ ms = Ms_idle
    /\ wav = Wav_idle
    /\ srt = Srt_idle
    /\ cli = Cli_idle
    /\ \/ \E d \in Literals :
              ts = [Ts_idle EXCEPT !.kind = "seconds", !.input = d]
       \/ \E c \in 0..MaxCentis :
              ts = [Ts_idle EXCEPT !.kind = "centiseconds", !.input = c]

TimestampNext == literal_seconds \/ cue_seconds \/ format_timestamp_call

TimestampSpec == TimestampInit /\ [][TimestampNext]_vars

\* HH:MM:SS,mmm of a whole number of milliseconds
ExactTimestamp(millis) ==
    Pad2(millis \div 3600000) \o <<":">>
        \o Pad2((millis % 3600000) \div 60000) \o <<":">>
        \o Pad2((millis % 60000) \div 1000) \o <<",">>
        \o Pad3(millis % 1000)

\* C21: format_timestamp(s) is HH:MM:SS,mmm with HH = floor(s / 3600),
\* MM = floor((s mod 3600) / 60), SS = floor(s mod 60) and mmm the
\* millisecond part of s, truncated: 3661.234 gives 01:01:01,234 and 59.9996
\* gives 00:00:59,999.
C21_TimestampExact ==
    (ts.pc = "done" /\ ts.kind = "seconds") =>
        ts.out = ExactTimestamp(ts.input \div (LiteralScale \div 1000))

\* C22: an engine time of c centiseconds is printed as exactly 10 c
\* milliseconds: the millisecond field is (c mod 100) * 10 and the seconds
\* field is (c div 100) mod 60.
C22_CentisecondsExact ==
    (ts.pc = "done" /\ ts.kind = "centiseconds") =>
        /\ SubSeq(ts.out, 7, 8) = Pad2((ts.input \div 100) % 60)
        /\ SubSeq(ts.out, 10, 12) = Pad3((ts.input % 100) * 10)

\* ------------------------------------------------------ command line
\* the states of <config dir>/config.toml
ConfigFiles == {"absent", "valid", "invalid"}

\* main, line 9: Args::parse
cli_parse ==
    /\ cli.pc = "idle"
    /\ cli' = [cli EXCEPT !.pc = "input"]
    /\ UNCHANGED <<guivars, ms, wav, srt, ts, tmp>>

\* create_app_config, line 23: args.input.context(..)?
create_app_config_input ==
    /\ cli.pc = "input"
    /\ cli' = IF cli.input THEN [cli EXCEPT !.pc = "output"]
              ELSE [cli EXCEPT !.result = "Err", !.pc = "done"]
    /\ UNCHANGED <<guivars, ms, wav, srt, ts, tmp>>

\* create_app_config_output without the check of args.output
create_app_config_output_Unchecked ==
    /\ cli.pc = "output"
    /\ cli' = [cli EXCEPT !.pc = "load"]
    /\ UNCHANGED <<guivars, ms, wav, srt, ts, tmp>>

\* create_app_config, line 24: args.output.context(..)?
create_app_config_output ==
    /\ cli.pc = "output"
    /\ cli' = IF cli.output THEN [cli EXCEPT !.pc = "load"]
              ELSE [cli EXCEPT !.result = "Err", !.pc = "done"]
    /\ UNCHANGED <<guivars, ms, wav, srt, ts, tmp>>

\* load_config, lines 53-59: the configuration directory is made
load_config_dir(ok) ==
    /\ cli.pc = "load"
    /\ cli' = IF cli.config_dir THEN [cli EXCEPT !.pc = "file"]
              ELSE IF ok THEN [cli EXCEPT !.config_dir = TRUE, !.pc = "file"]
              ELSE [cli EXCEPT !.result = "Err", !.pc = "done"]
    /\ UNCHANGED <<guivars, ms, wav, srt, ts, tmp>>

\* load_config, lines 61-80: a missing configuration file is created
load_config_file(ok) ==
    /\ cli.pc = "file"
    /\ cli' = IF cli.config_file # "absent" THEN [cli EXCEPT !.pc = "read"]
              ELSE IF ok
              THEN [cli EXCEPT !.config_file = "valid", !.pc = "read"]
              ELSE [cli EXCEPT !.result = "Err", !.pc = "done"]
    /\ UNCHANGED <<guivars, ms, wav, srt, ts, tmp>>

\* load_config, lines 83-87: the file is opened, read and parsed;
\* create_app_config, lines 30-35: the language of the command line wins
load_config_read(ok) ==
    /\ cli.pc = "read"
    /\ cli' = IF ok /\ cli.config_file = "valid"
              THEN [cli EXCEPT !.loaded = TRUE,
                               !.app_language = IF cli.language THEN "args"
                                                ELSE "config",
                               !.pc = "run"]
              ELSE [cli EXCEPT !.result = "Err", !.pc = "done"]
    /\ UNCHANGED <<guivars, ms, wav, srt, ts, tmp>>

\* main, line 15: transcribe_audio(&app_config), the result of main
cli_transcribe(ok) ==
    /\ cli.pc = "run"
    /\ cli' = [cli EXCEPT !.started = TRUE,
                          !.result = IF ok THEN "Ok" ELSE "Err",
                          !.pc = "done"]
    /\ UNCHANGED <<guivars, ms, wav, srt, ts, tmp>>

\* the command line (clap fills the positional arguments in order: there
\* is no output without an input) and the configuration directory
CliInit ==
    /\ GuiInit
    /\ tmp = Tmp_idle
    /\ ms = Ms_idle
    /\ wav = Wav_idle
    /\ srt = Srt_idle
    /\ ts = Ts_idle
    /\ \E i \in BOOLEAN, o \in BOOLEAN, l \in BOOLEAN, d \in BOOLEAN,
          f \in ConfigFiles :
           /\ o => i
           /\ f # "absent" => d
           /\ cli = [Cli_idle EXCEPT !.input = i, !.output = o,
                                     !.language = l,
                                     !.config_dir = d, !.config_dir0 = d,
                                     !.config_file = f, !.config_file0 = f]

CliNext ==
    \/ cli_parse
    \/ create_app_config_input
    \/ create_app_config_output
    \/ \E ok \in BOOLEAN : load_config_dir(ok)
    \/ \E ok \in BOOLEAN : load_config_file(ok)
    \/ \E ok \in BOOLEAN : load_config_read(ok)
    \/ \E ok \in BOOLEAN : cli_transcribe(ok)

CliSpec == CliInit /\ [][CliNext]_vars

\* C24: when the input or the output argument is missing the program fails
\* before any other work: the configuration file is neither loaded nor
\* created and no pipeline stage is started.
C24_MissingArgumentFailsFirst ==
    (~cli.input \/ ~cli.output) =>
        /\ ~cli.loaded
        /\ ~cli.started
        /\ cli.config_file = cli.config_file0
        /\ cli.config_dir = cli.config_dir0
        /\ cli.pc \in {"idle", "input", "output", "done"}
        /\ cli.pc = "done" => cli.result = "Err"

\* the program has ended on a missing output, with no configuration file
C24_Witness ==
    /\ cli.pc = "done"
    /\ cli.input
    /\ ~cli.output
    /\ cli.result = "Err"
    /\ cli.config_file = "absent"

\* ---------------------------------------- pipeline runs sharing a temp dir
\* number of pipeline runs (of one process or of several) at the same time
NumRuns == 2
Runs == 1..NumRuns
\* the file names of the temp directory: 0 is temp_audio.wav
TempAudio == 0
TempNames == 0..NumRuns
\* a file that does not exist; an existing file holds the audio of a run
NoFile == 0

\* temp_audio_path with a name of its own for each run
temp_audio_path_PerRun(input, r) == r

\* transcribe_audio, lines 25-26: env::temp_dir().join("temp_audio.wav")
temp_audio_path(input, r) == TempAudio

\* transcribe_audio, lines 25-26
run_temp_path(r) ==
    /\ tmp.pc[r] = "start"
    /\ tmp' = [tmp EXCEPT !.path[r] = temp_audio_path(tmp.cfg[r], r),
                          !.pc[r] = "extract"]
    /\ UNCHANGED <<guivars, ms, wav, srt, ts, cli>>

\* transcribe_audio, line 29: the decoder overwrites the file (-y), or fails
run_extract(r, ok) ==
    /\ tmp.pc[r] = "extract"
    /\ tmp' = IF ok
              THEN [tmp EXCEPT !.files[tmp.path[r]] = r, !.pc[r] = "parse"]
              ELSE [tmp EXCEPT !.result[r] = "Err", !.pc[r] = "done"]
    /\ UNCHANGED <<guivars, ms, wav, srt, ts, cli>>

\* transcribe_audio, line 32: parse_wav_file reads whatever the file holds
run_parse(r) ==
    /\ tmp.pc[r] = "parse"
    /\ tmp' = IF tmp.files[tmp.path[r]] = NoFile
              THEN [tmp EXCEPT !.result[r] = "Err", !.pc[r] = "done"]
              ELSE [tmp EXCEPT !.decoded[r] = tmp.files[tmp.path[r]],
                               !.pc[r] = "transcribe"]
    /\ UNCHANGED <<guivars, ms, wav, srt, ts, cli>>

\* transcribe_audio, lines 34-62: conversion, engine and subtitle writing
run_transcribe(r, ok) ==
    /\ tmp.pc[r] = "transcribe"
    /\ tmp' = IF ok THEN [tmp EXCEPT !.pc[r] = "cleanup"]
              ELSE [tmp EXCEPT !.result[r] = "Err", !.pc[r] = "done"]
    /\ UNCHANGED <<guivars, ms, wav, srt, ts, cli>>

\* transcribe_audio, line 65: temp_audio_path.exists()
run_cleanup_exists(r) ==
    /\ tmp.pc[r] = "cleanup"
    /\ tmp' = IF tmp.files[tmp.path[r]] = NoFile
              THEN [tmp EXCEPT !.result[r] = "Ok", !.pc[r] = "done"]
              ELSE [tmp EXCEPT !.pc[r] = "remove"]
    /\ UNCHANGED <<guivars, ms, wav, srt, ts, cli>>

\* transcribe_audio, line 66: fs::remove_file(&temp_audio_path)?
run_cleanup_remove(r, ok) ==
    /\ tmp.pc[r] = "remove"
    /\ tmp' = IF ok /\ tmp.files[tmp.path[r]] # NoFile
              THEN [tmp EXCEPT !.deleted[r] = tmp.files[tmp.path[r]],
                               !.files[tmp.path[r]] = NoFile,
                               !.result[r] = "Ok", !.pc[r] = "done"]
              ELSE [tmp EXCEPT !.result[r] = "Err", !.pc[r] = "done"]
    /\ UNCHANGED <<guivars, ms, wav, srt, ts, cli>>

\* the runs have been called, each with an input; the temp directory is empty
RunsInit ==
    /\ GuiInit
    /\ ms = Ms_idle
    /\ wav = Wav_idle
    /\ srt = Srt_idle
    /\ ts = Ts_idle
    /\ cli = Cli_idle
    /\ \E c \in [Runs -> Inputs] :
           tmp = [files |-> [n \in TempNames |-> NoFile],
                  pc |-> [r \in Runs |-> "start"],
                  cfg |-> c,
                  path |-> [r \in Runs |-> TempAudio],
                  decoded |-> [r \in Runs |-> NoFile],
                  deleted |-> [r \in Runs |-> NoFile],
                  result |-> [r \in Runs |-> "none"]]

RunsNext ==
    \E r \in Runs :
        \/ run_temp_path(r)
        \/ \E ok \in BOOLEAN : run_extract(r, ok)
        \/ run_parse(r)
        \/ \E ok \in BOOLEAN : run_transcribe(r, ok)
        \/ run_cleanup_exists(r)
        \/ \E ok \in BOOLEAN : run_cleanup_remove(r, ok)

RunsSpec == RunsInit /\ [][RunsNext]_vars

\* C25: every run uses the same temporary audio path, temp_audio.wav,
\* whatever its input and whichever run it is; no other file of the temp
\* directory is written.  (The interleaving in which a run decodes or
\* deletes the audio another run wrote is C25_Witness.)
C25_SharedTempPath ==
    /\ \A r \in Runs : tmp.pc[r] # "start" => tmp.path[r] = TempAudio
    /\ \A n \in TempNames : n # TempAudio => tmp.files[n] = NoFile

\* two different inputs are processed; one run has decoded the audio the
\* other run extracted, and a run has deleted the audio of the other
C25_Witness ==
    /\ tmp.cfg[1] # tmp.cfg[2]
    /\ \E r \in Runs : tmp.decoded[r] \notin {NoFile, r}
    /\ \E r \in Runs : tmp.deleted[r] \notin {NoFile, r}

\* ------------------------------------------------- the lock and the frame
\* the positions of the foreground at which its next step takes the lock
LockPositions ==
    {"idle", "snapshot", "main", "reset", "check", "save", "save_status"}

\* no thread is about to take the lock while it holds it: the foreground
\* drops every guard within the step that took it, and a worker holds the
\* lock only while it removes its temporary subtitle file
NoLockHeldAtAcquire ==
    /\ mutex = Ui => fpc \notin LockPositions
    /\ \A w \in Workers : mutex = w => wpc[w] = "remove_temp"

\* C27: the foreground and the worker never deadlock on the lock of the
\* progress record: no thread takes the lock while it already holds it
\* (select_input_file, save_subtitle_file, start_processing and update with
\* their calls of reset_to_initial and save_subtitle_file included), and a
\* lock that is held is eventually released.
C27_NoDeadlock ==
    /\ []NoLockHeldAtAcquire
    /\ (mutex # Free) ~> (mutex = Free)

\* update waits at line 400 for the lock a worker holds while it removes
\* its temporary file
C27_Witness ==
    /\ fpc = "check"
    /\ \E w \in Workers : mutex = w /\ wpc[w] = "remove_temp"

\* C28: in every reachable state, status Completed implies that the
\* subtitle content is present in the record, and status Initial,
\* FileSelected or Processing implies that it is absent.
C28_ContentMatchesStatus ==
    /\ status.tag = "Completed" => progress_info.subtitle_content # None
    /\ status.tag \in {"Initial", "FileSelected", "Processing"}
           => progress_info.subtitle_content = None

\* a run has completed and the record is back at Initial without content
C28_Witness ==
    /\ \E i \in 1..Len(hist) : hist[i] = "Completed"
    /\ status = Initial
    /\ progress_info.subtitle_content = None

\* C29: within one frame the status that selects the view (line 273) and
\* the message displayed in it (lines 336-337) come from the same state of
\* the record: the Processing arm never displays the message that the
\* worker's Completed update wrote.
C29_FrameConsistent ==
    [][(fpc = "main" /\ fstatus.tag = "Processing" /\ fpc' = "check")
          => progress_info.message # MsgCompleted]_vars

====
